---- MODULE Spec2Model ----
(***************************************************************************)
(* A model of the CCUsage agent (src/agent/agent.py): the persisted State, *)
(* the collection pass over the JSONL log files, the batched reporting     *)
(* loop and the process life cycle (start, cycle, sleep, exit, signal,     *)
(* kill).                                                                  *)
(***************************************************************************)
EXTENDS Integers, Sequences, FiniteSets, TLC

(***************************************************************************)
(* Bounds of the model.  BATCH_SIZE is 500 and KEEP_LAST is 10000 in the   *)
(* source (agent.py:354 and agent.py:121); the model runs them scaled      *)
(* down, and every formula below is stated in terms of the two names.      *)
(***************************************************************************)
BATCH_SIZE == 2

KEEP_LAST == 2

\* lines of a directory of a few short log files, all files together
MaxLines == 2

\* lines of a directory read by one collection pass, all files together, when
\* the lines are drawn from every kind of line (ScanLines)
MaxScanLines == 3

\* lines of a directory whose only non-empty log file is a long one
MaxLongFile == 5

\* collection passes (collect_and_report calls) in one behaviour
MaxPasses == 2

\* the last second the wall clock reaches
MaxTime == 4

None == "<None>"

Paths == {"a.jsonl", "b.jsonl", "c.jsonl"}

\* the order in which directory.rglob('*.jsonl') yields the files
RglobOrder == <<"a.jsonl", "b.jsonl", "c.jsonl">>

T_DAY1 == "2024-01-01T00:00:00Z"

\* half a second after T_DAY1, written with the optional milliseconds
T_DAY1_MS == "2024-01-01T00:00:00.500Z"

T_DAY2 == "2024-01-02T00:00:00Z"

\* matches _ISO_TS_RE, is no calendar date
T_NODATE == "2024-13-40T99:99:99Z"

(***************************************************************************)
(* One line of a log file.  json: json.loads(line) succeeds; object: the    *)
(* value it returns is a JSON object (a dict); timestamp:                  *)
(* entry['timestamp'] or None; usage: entry['message'] and                 *)
(* message['usage'] are objects; input_tokens/output_tokens: the numbers,  *)
(* -1 when absent or not numeric; id: message['id'] or None; requestId:    *)
(* entry['requestId'] or None.                                             *)
(***************************************************************************)
E_HASHED == [json |-> TRUE, object |-> TRUE, timestamp |-> T_DAY2, usage |-> TRUE,
             input_tokens |-> 1, output_tokens |-> 2, id |-> "m1", requestId |-> "r1"]

E_NOREQ == [json |-> TRUE, object |-> TRUE, timestamp |-> T_DAY1, usage |-> TRUE,
            input_tokens |-> 1, output_tokens |-> 2, id |-> "m1", requestId |-> None]

E_NODATE == [json |-> TRUE, object |-> TRUE, timestamp |-> T_NODATE, usage |-> TRUE,
             input_tokens |-> 1, output_tokens |-> 2, id |-> None, requestId |-> None]

\* E_NOREQ half a second later
E_MS == [json |-> TRUE, object |-> TRUE, timestamp |-> T_DAY1_MS, usage |-> TRUE,
         input_tokens |-> 1, output_tokens |-> 2, id |-> "m1", requestId |-> None]

\* a line that is no JSON document
E_MALFORMED == [json |-> FALSE, object |-> FALSE, timestamp |-> None, usage |-> FALSE,
                input_tokens |-> -1, output_tokens |-> -1, id |-> None, requestId |-> None]

\* a JSON document that is no object: [1], 5, "s", null
E_NOTOBJECT == [json |-> TRUE, object |-> FALSE, timestamp |-> None, usage |-> FALSE,
                input_tokens |-> -1, output_tokens |-> -1, id |-> None, requestId |-> None]

\* an object with a timestamp and no message.usage: a schema mismatch
E_NOUSAGE == [json |-> TRUE, object |-> TRUE, timestamp |-> T_DAY2, usage |-> FALSE,
              input_tokens |-> -1, output_tokens |-> -1, id |-> None, requestId |-> None]

Entries == {E_HASHED, E_NOREQ, E_NODATE, E_MS, E_MALFORMED, E_NOTOBJECT, E_NOUSAGE}

\* the lines the log files of Spec are made of
LogLines == {E_HASHED, E_NOREQ, E_NODATE}

\* the lines of a long log file: every one of them yields a record in a first pass
LongFileLines == {E_NOREQ, E_NODATE}

\* the lines of the directories of SpecScan: accepted and rejected ones
ScanLines == {E_HASHED, E_NOREQ, E_MS, E_MALFORMED, E_NOTOBJECT, E_NOUSAGE}

RECURSIVE SeqsUpTo(_, _)
SeqsUpTo(S, n) ==
    IF n = 0 THEN {<<>>}
    ELSE LET shorter == SeqsUpTo(S, n - 1)
         IN  shorter \cup {Append(s, e) : s \in {t \in shorter : Len(t) = n - 1}, e \in S}

Min(a, b) == IF a < b THEN a ELSE b

Range(s) == {s[k] : k \in 1..Len(s)}

----------------------------------------------------------------------------
(* Formatting: an f-string is the concatenation of its pieces; a string is *)
(* kept as the sequence of the pieces it was built from.                   *)

Digit(d) == <<"0", "1", "2", "3", "4", "5", "6", "7", "8", "9">>[d + 1]

RECURSIVE Str(_)
Str(n) == IF n < 10 THEN <<Digit(n)>> ELSE Str(n \div 10) \o <<Digit(n % 10)>>

\* _ISO_TS_RE.match(ts)
IsoTsMatch(ts) == ts \in {T_DAY1, T_DAY1_MS, T_DAY2, T_NODATE}

\* datetime.fromisoformat(ts.replace('Z', '+00:00')) succeeds
IsCalendarDate(ts) == ts \in {T_DAY1, T_DAY1_MS, T_DAY2}

\* int(dt.timestamp()): the epoch seconds of a calendar date, counted in the
\* model's clock unit; the fraction of a second is cut off
EpochOf(ts) ==
    CASE ts = T_DAY1 -> 1 [] ts = T_DAY1_MS -> 1 [] ts = T_DAY2 -> 2 [] OTHER -> 0

\* _parse_timestamp at wall-clock time t: the fallback is int(time.time())
_parse_timestamp(ts, t) == IF IsCalendarDate(ts) THEN EpochOf(ts) ELSE t

_validate_entry(e) ==
    /\ e.timestamp # None
    /\ IsoTsMatch(e.timestamp)
    /\ e.usage
    /\ e.input_tokens >= 0
    /\ e.output_tokens >= 0

\* the hash formatted without the test for None: 'm1:None', 'None:None'
unique_hash_Unguarded(e) == <<e.id, ":", e.requestId>>

\* f'{message_id}:{request_id}', or <<>> for None
unique_hash(e) ==
    IF e.id # None /\ e.requestId # None THEN <<e.id, ":", e.requestId>> ELSE <<>>

\* f"{file_path}:{unique_hash or f'{timestamp}:{input}:{output}:{cache_create}:{cache_read}'}"
record_id(path, e, t) ==
    <<path, ":">> \o
    (IF unique_hash(e) # <<>> THEN unique_hash(e)
     ELSE Str(_parse_timestamp(e.timestamp, t)) \o <<":">> \o Str(e.input_tokens)
          \o <<":">> \o Str(e.output_tokens) \o <<":", "0", ":", "0">>)

----------------------------------------------------------------------------
(* File discovery and ordering.                                            *)

\* rank of a sort key in Python's string order, which compares code points:
\* '.' (46) is below 'Z' (90), so '...00.500Z' is below '...00Z'; 'z' is the
\* no-timestamp key
KeyRank(k) ==
    CASE k = T_DAY1_MS -> 0 [] k = T_DAY1 -> 1 [] k = T_DAY2 -> 2 [] k = T_NODATE -> 3
      [] OTHER -> 4

\* the first line that parses and holds a timestamp string (every timestamp of
\* the model is longer than 10 characters with '-' at index 4); a line that is
\* no JSON document or no object raises and is passed over
RECURSIVE FirstTimestamp(_, _)
FirstTimestamp(lines, k) ==
    IF k > Len(lines) THEN "z"
    ELSE IF lines[k].json /\ lines[k].object /\ lines[k].timestamp # None
         THEN lines[k].timestamp
    ELSE FirstTimestamp(lines, k + 1)

_get_earliest_timestamp(d, path) == FirstTimestamp(d[path], 1)

\* list.sort(key=...) is stable: p goes after every element whose key is <= its own
RECURSIVE InsertByKey(_, _, _)
InsertByKey(d, sorted, p) ==
    IF sorted = <<>> THEN <<p>>
    ELSE IF KeyRank(_get_earliest_timestamp(d, p))
            < KeyRank(_get_earliest_timestamp(d, Head(sorted)))
         THEN <<p>> \o sorted
         ELSE <<Head(sorted)>> \o InsertByKey(d, Tail(sorted), p)

RECURSIVE SortFiles(_, _, _)
SortFiles(d, files, k) ==
    IF k = 0 THEN <<>> ELSE InsertByKey(d, SortFiles(d, files, k - 1), files[k])

\* the value of the log directory when the root directory does not exist
NoDirectory == <<>>

find_jsonl_files(d) ==
    IF d = NoDirectory THEN <<>> ELSE SortFiles(d, RglobOrder, Len(RglobOrder))

----------------------------------------------------------------------------
(* The collection pass.                                                    *)

\* no intra-pass check at all
IsDuplicateEntry_Never(h, hashes) == FALSE

\* steps 3-4 of collect_records: a defined hash already seen in this pass
IsDuplicateEntry(h, hashes) == h # <<>> /\ h \in hashes

\* processed_hashes.add(unique_hash), only for a defined hash
AddHash(h, hashes) == IF h # <<>> THEN hashes \cup {h} ELSE hashes

\* the record built from line l of file path (the dict of lines 272-282; path and
\* line say which entry it was built from)
BuildRecord(path, l, e, t) ==
    [_record_id |-> record_id(path, e, t),
     input_tokens |-> e.input_tokens,
     output_tokens |-> e.output_tokens,
     timestamp |-> _parse_timestamp(e.timestamp, t),
     path |-> path,
     line |-> l]

\* the loops with the cross-run test first: an entry whose RecordID is reported
\* is passed over before its hash is looked at, and its hash is not entered
RECURSIVE CollectFrom_ReportedFirst(_, _, _, _, _, _, _, _)
CollectFrom_ReportedFirst(d, files, f, l, hashes, recs, rep, t) ==
    IF f > Len(files) THEN recs
    ELSE IF l > Len(d[files[f]])
    THEN CollectFrom_ReportedFirst(d, files, f + 1, 1, hashes, recs, rep, t)
    ELSE LET e == d[files[f]][l]
             h == unique_hash(e)
         IN  IF ~e.json
             THEN CollectFrom_ReportedFirst(d, files, f, l + 1, hashes, recs, rep, t)
             ELSE IF ~e.object
             THEN CollectFrom_ReportedFirst(d, files, f + 1, 1, hashes, recs, rep, t)
             ELSE IF ~_validate_entry(e)
             THEN CollectFrom_ReportedFirst(d, files, f, l + 1, hashes, recs, rep, t)
             ELSE IF record_id(files[f], e, t) \in rep
             THEN CollectFrom_ReportedFirst(d, files, f, l + 1, hashes, recs, rep, t)
             ELSE IF IsDuplicateEntry(h, hashes)
             THEN CollectFrom_ReportedFirst(d, files, f, l + 1, hashes, recs, rep, t)
             ELSE CollectFrom_ReportedFirst(d, files, f, l + 1, AddHash(h, hashes),
                      Append(recs, BuildRecord(files[f], l, e, t)), rep, t)

(* The loops of collect_records from line l of the f-th file on: d is the  *)
(* directory, files the ordered file list, hashes processed_hashes, recs   *)
(* the records so far, rep state.reported_records, t the wall clock.  A    *)
(* line that is no JSON document raises json.JSONDecodeError, which the    *)
(* inner except passes over; a JSON value that is no object raises         *)
(* AttributeError in _validate_entry (entry.get), which only the outer     *)
(* except of the file catches: the rest of the file is not read.           *)
RECURSIVE CollectFrom(_, _, _, _, _, _, _, _)
CollectFrom(d, files, f, l, hashes, recs, rep, t) ==
    IF f > Len(files) THEN recs
    ELSE IF l > Len(d[files[f]]) THEN CollectFrom(d, files, f + 1, 1, hashes, recs, rep, t)
    ELSE LET e == d[files[f]][l]
             h == unique_hash(e)
         IN  IF ~e.json
             THEN CollectFrom(d, files, f, l + 1, hashes, recs, rep, t)
             ELSE IF ~e.object
             THEN CollectFrom(d, files, f + 1, 1, hashes, recs, rep, t)
             ELSE IF ~_validate_entry(e)
             THEN CollectFrom(d, files, f, l + 1, hashes, recs, rep, t)
             ELSE IF IsDuplicateEntry(h, hashes)
             THEN CollectFrom(d, files, f, l + 1, hashes, recs, rep, t)
             ELSE IF record_id(files[f], e, t) \in rep
             THEN CollectFrom(d, files, f, l + 1, AddHash(h, hashes), recs, rep, t)
             ELSE CollectFrom(d, files, f, l + 1, AddHash(h, hashes),
                              Append(recs, BuildRecord(files[f], l, e, t)), rep, t)

collect_records(d, files, rep, t) == CollectFrom(d, files, 1, 1, {}, <<>>, rep, t)

----------------------------------------------------------------------------
(* The state.                                                              *)

VARIABLES
    dir,        \* the log directory: path -> the lines of the file
    disk,       \* the state file: st is "missing", "ok" (a complete JSON object) or
                \* "partial" (truncated by open(..., 'w'), the dump not finished)
    now,        \* int(time.time())
    pc,         \* where the agent process is: "off" (no process), "collect", "report",
                \* "saving", "cycle_end", "exit", and in signal_handler "sig_saving",
                \* "sig_exit"
    once,       \* args.once of the running process
    reported_records,           \* State.reported_records
    last_reported_timestamp,    \* State.last_reported_timestamp
    records,    \* report_usage's records
    i,          \* report_usage's loop variable
    all_ok,     \* report_usage's all_ok
    save_ret,   \* where the running save() returns to
    passes,     \* collect_and_report calls so far
    sent,       \* history: the batches handed to _send_batch in this cycle, with outcome
    cycle_start_reported, \* history: reported_records when the cycle's collection ran
    unsent,     \* history: the records of the failed batch and of the batches after it
    last_pass,  \* history: "ok"/"failed": how the last completed report_usage ended,
                \* "none" before the first and after a kill
    prev_pass,  \* history: last_pass as it was when the current cycle's collection ran
    files,      \* collect_and_report's files: the list find_jsonl_files returned
    exit_code   \* the exit status of the last process that ended: sys.exit's
                \* argument, -9 after a kill, -1 while a process runs and before
                \* the first

vars == <<dir, disk, now, pc, once, reported_records, last_reported_timestamp, records, i,
          all_ok, save_ret, passes, sent, cycle_start_reported, unsent, last_pass,
          prev_pass, files, exit_code>>

TotalLines(d) == Len(d["a.jsonl"]) + Len(d["b.jsonl"]) + Len(d["c.jsonl"])

\* log files of a few lines, all files together
SmallDirs ==
    {d \in [Paths -> SeqsUpTo(LogLines, MaxLines)] : TotalLines(d) <= MaxLines}

\* one long log file beside empty ones
LongFileDirs ==
    {[p \in Paths |-> IF p = "a.jsonl" THEN lines ELSE <<>>] :
        lines \in SeqsUpTo(LongFileLines, MaxLongFile)}

RECURSIVE GrowDirs(_, _)
\* every directory of at most n lines, all files together, the lines from S
GrowDirs(S, n) ==
    IF n = 0 THEN {[p \in Paths |-> <<>>]}
    ELSE LET smaller == GrowDirs(S, n - 1)
         IN  smaller \cup
             {[d EXCEPT ![p] = Append(@, e)] : d \in smaller, p \in Paths, e \in S}

\* the directories one collection pass is run on: accepted and rejected lines
\* in every position, and the root directory that does not exist
ScanDirs == GrowDirs(ScanLines, MaxScanLines) \cup {NoDirectory}

MissingFile == [st |-> "missing", lastReportedTimestamp |-> 0, reportedRecords |-> {}]

PartialFile == [st |-> "partial", lastReportedTimestamp |-> 0, reportedRecords |-> {}]

\* a state file that holds a JSON document that is no object: [1, 2]
NotObjectFile == [st |-> "notobject", lastReportedTimestamp |-> 0, reportedRecords |-> {}]

\* {"lastReportedTimestamp": 2, "reportedRecords": 7}: the field is nothing set()
\* can be built from (a number, or a list of lists); it holds no RecordID
BadRecordsFile == [st |-> "badrecords", lastReportedTimestamp |-> 2, reportedRecords |-> {}]

\* {"lastReportedTimestamp": 2, "reportedRecords": "ab"}: the field is a string;
\* reportedRecords stands for its characters
StrRecordsFile ==
    [st |-> "strrecords", lastReportedTimestamp |-> 2, reportedRecords |-> {<<"a">>, <<"b">>}]

\* no agent process has run yet
NotStarted ==
    /\ now = 3
    /\ pc = "off"
    /\ once = FALSE
    /\ reported_records = {}
    /\ last_reported_timestamp = 0
    /\ records = <<>>
    /\ i = 0
    /\ all_ok = TRUE
    /\ save_ret = "none"
    /\ passes = 0
    /\ sent = <<>>
    /\ cycle_start_reported = {}
    /\ unsent = <<>>
    /\ last_pass = "none"
    /\ prev_pass = "none"
    /\ files = <<>>
    /\ exit_code = -1

Init ==
    /\ dir \in SmallDirs \cup LongFileDirs
    /\ disk = MissingFile
    /\ NotStarted

----------------------------------------------------------------------------
(* State.                                                                  *)

\* State.__init__ and State.load: a missing file leaves the fresh values, a file
\* that is no complete JSON document raises in json.load and a document that is
\* no object raises in data.get, which load() swallows.  Of an object the
\* timestamp is assigned first and then set(data.get('reportedRecords', [])):
\* when set() raises the timestamp stays assigned, and the set of a string is
\* the set of its characters
LoadedTimestamp(file) ==
    IF file.st \in {"ok", "badrecords", "strrecords"} THEN file.lastReportedTimestamp ELSE 0

LoadedRecords(file) == IF file.st \in {"ok", "strrecords"} THEN file.reportedRecords ELSE {}

\* the whole set is written, without the slice
KeepLast_Unsliced(rep) == {rep}

\* list(self.reported_records)[-10000:]: a set iterates in no order the program
\* controls, so the slice is any KEEP_LAST of its elements
KeepLast(rep) ==
    {keep \in SUBSET rep : Cardinality(keep) = Min(KEEP_LAST, Cardinality(rep))}

\* the file json.dump leaves once the with block closes it
SavedFile(ts, keep) ==
    [st |-> "ok", lastReportedTimestamp |-> ts, reportedRecords |-> keep]

\* for r in batch: state.mark_reported(r['_record_id'])
MarkBatch(rep, batch) == rep \cup {batch[k]._record_id : k \in 1..Len(batch)}

\* records[i:i + BATCH_SIZE]
Batch(recs, start) == SubSeq(recs, start + 1, Min(start + BATCH_SIZE, Len(recs)))

\* the memory of a process that does not run
NoProcess ==
    /\ pc' = "off"
    /\ once' = FALSE
    /\ reported_records' = {}
    /\ last_reported_timestamp' = 0
    /\ records' = <<>>
    /\ i' = 0
    /\ all_ok' = TRUE
    /\ save_ret' = "none"
    /\ sent' = <<>>
    /\ cycle_start_reported' = {}
    /\ prev_pass' = "none"
    /\ files' = <<>>

----------------------------------------------------------------------------
(* The actions.                                                            *)

\* main() up to the first cycle: a new process constructs its State from the file
Start ==
    /\ pc = "off"
    /\ passes < MaxPasses
    /\ once' \in BOOLEAN
    /\ reported_records' = LoadedRecords(disk)
    /\ last_reported_timestamp' = LoadedTimestamp(disk)
    /\ exit_code' = -1
    /\ pc' = "collect"
    /\ UNCHANGED <<dir, disk, now, records, i, all_ok, save_ret, passes, sent,
                   cycle_start_reported, unsent, last_pass, prev_pass, files>>

\* collect_and_report up to the call of report_usage
Collect ==
    /\ pc = "collect"
    /\ files' = find_jsonl_files(dir)
    /\ records' = collect_records(dir, files', reported_records, now)
    /\ i' = 0
    /\ all_ok' = TRUE
    /\ sent' = <<>>
    /\ cycle_start_reported' = reported_records
    /\ prev_pass' = last_pass
    /\ passes' = passes + 1
    /\ pc' = "report"
    /\ UNCHANGED <<exit_code,
                   dir, disk, now, once, reported_records, last_reported_timestamp,
                   save_ret, unsent, last_pass>>

\* one iteration of report_usage's loop whose _send_batch gets a 2xx answer with a
\* JSON body: the batch is marked and save() has opened the state file for writing
SendBatchOk ==
    /\ pc = "report"
    /\ i < Len(records)
    /\ reported_records' = MarkBatch(reported_records, Batch(records, i))
    /\ last_reported_timestamp' = now
    /\ sent' = Append(sent, [num |-> (i \div BATCH_SIZE) + 1, batch |-> Batch(records, i),
                             ok |-> TRUE])
    /\ i' = i + BATCH_SIZE
    /\ disk' = PartialFile
    /\ save_ret' = "report"
    /\ pc' = "saving"
    /\ UNCHANGED <<files, exit_code,
                   dir, now, once, records, all_ok, passes, cycle_start_reported, unsent,
                   last_pass, prev_pass>>

\* a failed send after which the loop goes on to the next batch (no break)
SendBatchFail_NoBreak ==
    /\ pc = "report"
    /\ i < Len(records)
    /\ sent' = Append(sent, [num |-> (i \div BATCH_SIZE) + 1, batch |-> Batch(records, i),
                             ok |-> FALSE])
    /\ all_ok' = FALSE
    /\ unsent' = SubSeq(records, i + 1, Len(records))
    /\ last_pass' = "failed"
    /\ i' = i + BATCH_SIZE
    /\ UNCHANGED <<files, exit_code,
                   dir, disk, now, pc, once, reported_records, last_reported_timestamp,
                   records, save_ret, passes, cycle_start_reported, prev_pass>>

\* a failed send whose batch was marked before the answer was read
SendBatchFail_MarksFirst ==
    /\ pc = "report"
    /\ i < Len(records)
    /\ reported_records' = MarkBatch(reported_records, Batch(records, i))
    /\ last_reported_timestamp' = now
    /\ sent' = Append(sent, [num |-> (i \div BATCH_SIZE) + 1, batch |-> Batch(records, i),
                             ok |-> FALSE])
    /\ all_ok' = FALSE
    /\ unsent' = SubSeq(records, i + 1, Len(records))
    /\ last_pass' = "failed"
    /\ pc' = "cycle_end"
    /\ UNCHANGED <<files, exit_code,
                   dir, disk, now, once, records, i, save_ret, passes,
                   cycle_start_reported, prev_pass>>

\* one iteration whose _send_batch fails (HTTPError, URLError, any other exception):
\* report_usage breaks out of the loop and returns False
SendBatchFail ==
    /\ pc = "report"
    /\ i < Len(records)
    /\ sent' = Append(sent, [num |-> (i \div BATCH_SIZE) + 1, batch |-> Batch(records, i),
                             ok |-> FALSE])
    /\ all_ok' = FALSE
    /\ unsent' = SubSeq(records, i + 1, Len(records))
    /\ last_pass' = "failed"
    /\ pc' = "cycle_end"
    /\ UNCHANGED <<files, exit_code,
                   dir, disk, now, once, reported_records, last_reported_timestamp,
                   records, i, save_ret, passes, cycle_start_reported, prev_pass>>

\* report_usage returns True: no records, or the loop ran to its end
ReportReturn ==
    /\ pc = "report"
    /\ i >= Len(records)
    /\ last_pass' = IF all_ok THEN "ok" ELSE "failed"
    /\ unsent' = IF all_ok THEN <<>> ELSE unsent
    /\ pc' = "cycle_end"
    /\ UNCHANGED <<files, exit_code,
                   dir, disk, now, once, reported_records, last_reported_timestamp,
                   records, i, all_ok, save_ret, passes, sent, cycle_start_reported,
                   prev_pass>>

\* State.save() writes the document and closes the file
SaveFinish ==
    /\ pc = "saving"
    /\ \E keep \in KeepLast(reported_records) :
           disk' = SavedFile(last_reported_timestamp, keep)
    /\ pc' = save_ret
    /\ UNCHANGED <<files, exit_code,
                   dir, now, once, reported_records, last_reported_timestamp, records, i,
                   all_ok, save_ret, passes, sent, cycle_start_reported, unsent,
                   last_pass, prev_pass>>

\* main() in one-shot mode: state.save() is entered
OnceSave ==
    /\ pc = "cycle_end"
    /\ once
    /\ disk' = PartialFile
    /\ save_ret' = "exit"
    /\ pc' = "saving"
    /\ UNCHANGED <<files, exit_code,
                   dir, now, once, reported_records, last_reported_timestamp, records, i,
                   all_ok, passes, sent, cycle_start_reported, unsent, last_pass,
                   prev_pass>>

\* the one-shot process exits with status 0 whatever the cycle did
Exit_AlwaysZero ==
    /\ pc = "exit"
    /\ exit_code' = 0
    /\ NoProcess
    /\ UNCHANGED <<dir, disk, now, passes, unsent, last_pass>>

\* sys.exit(0 if success else 1): success is what collect_and_report returned,
\* report_usage's all_ok
Exit ==
    /\ pc = "exit"
    /\ exit_code' = IF all_ok THEN 0 ELSE 1
    /\ NoProcess
    /\ UNCHANGED <<dir, disk, now, passes, unsent, last_pass>>

\* the next cycle is run only after a cycle that succeeded
Sleep_OnlyAfterSuccess ==
    /\ pc = "cycle_end"
    /\ ~once
    /\ all_ok
    /\ passes < MaxPasses
    /\ now < MaxTime
    /\ now' = now + 1
    /\ pc' = "collect"
    /\ UNCHANGED <<files, exit_code,
                   dir, disk, once, reported_records, last_reported_timestamp, records,
                   i, all_ok, save_ret, passes, sent, cycle_start_reported, unsent,
                   last_pass, prev_pass>>

\* main() in continuous mode: time.sleep(interval_seconds), then the next cycle
Sleep ==
    /\ pc = "cycle_end"
    /\ ~once
    /\ passes < MaxPasses
    /\ now < MaxTime
    /\ now' = now + 1
    /\ pc' = "collect"
    /\ UNCHANGED <<files, exit_code,
                   dir, disk, once, reported_records, last_reported_timestamp, records,
                   i, all_ok, save_ret, passes, sent, cycle_start_reported, unsent,
                   last_pass, prev_pass>>

\* the process is killed (SIGKILL, power loss): its memory is gone, the state file
\* stays as the last write left it
Kill ==
    /\ pc # "off"
    /\ NoProcess
    /\ last_pass' = "none"
    /\ unsent' = <<>>
    /\ exit_code' = -9
    /\ UNCHANGED <<dir, disk, now, passes>>

\* the wall clock advances between two runs of the agent (inside a process it
\* advances with Sleep; one cycle reads one value of the clock)
Tick ==
    /\ pc = "off"
    /\ now < MaxTime
    /\ now' = now + 1
    /\ UNCHANGED <<files, exit_code,
                   dir, disk, pc, once, reported_records, last_reported_timestamp,
                   records, i, all_ok, save_ret, passes, sent, cycle_start_reported,
                   unsent, last_pass, prev_pass>>

Next ==
    \/ Start
    \/ Collect
    \/ SendBatchOk
    \/ SendBatchFail
    \/ ReportReturn
    \/ SaveFinish
    \/ OnceSave
    \/ Exit
    \/ Sleep
    \/ Kill
    \/ Tick

Spec == Init /\ [][Next]_vars

----------------------------------------------------------------------------
(* Termination signals.  signal_handler runs in the main thread, between   *)
(* two instructions of whatever main() was doing: it calls state.save()    *)
(* and then sys.exit(0).                                                   *)

\* SIGINT or SIGTERM arrives: the handler has called state.save(), which has
\* opened the state file for writing.  A signal inside _send_batch's marking loop
\* finds the first k records of the acknowledged batch marked.
Signal ==
    /\ pc \in {"collect", "report", "saving", "cycle_end", "exit"}
    /\ \E k \in 0..BATCH_SIZE :
           /\ k > 0 => (pc = "report" /\ k <= Len(Batch(records, i)))
           /\ reported_records' =
                  MarkBatch(reported_records, SubSeq(Batch(records, i), 1, k))
           /\ last_reported_timestamp' = IF k > 0 THEN now ELSE last_reported_timestamp
    /\ disk' = PartialFile
    /\ pc' = "sig_saving"
    /\ UNCHANGED <<files, exit_code,
                   dir, now, once, records, i, all_ok, save_ret, passes, sent,
                   cycle_start_reported, unsent, last_pass, prev_pass>>

\* the handler goes on to sys.exit without the document having been written
SignalSaveFinish_NoWrite ==
    /\ pc = "sig_saving"
    /\ pc' = "sig_exit"
    /\ UNCHANGED <<files, exit_code,
                   dir, disk, now, once, reported_records, last_reported_timestamp,
                   records, i, all_ok, save_ret, passes, sent, cycle_start_reported,
                   unsent, last_pass, prev_pass>>

\* the handler's save() writes the document and closes the file
SignalSaveFinish ==
    /\ pc = "sig_saving"
    /\ \E keep \in KeepLast(reported_records) :
           disk' = SavedFile(last_reported_timestamp, keep)
    /\ pc' = "sig_exit"
    /\ UNCHANGED <<files, exit_code,
                   dir, now, once, reported_records, last_reported_timestamp, records, i,
                   all_ok, save_ret, passes, sent, cycle_start_reported, unsent,
                   last_pass, prev_pass>>

\* sys.exit(0) in the handler.  When the signal fell inside a save() of main(),
\* SystemExit unwinds that save's with block, which flushes what it had buffered
\* at its own offset: a prefix of the document the handler has just written (the
\* same set, listed in the same order), so the file is left as the handler wrote it
SignalExit ==
    /\ pc = "sig_exit"
    /\ exit_code' = 0
    /\ NoProcess
    /\ UNCHANGED <<dir, disk, now, passes, unsent, last_pass>>

NextSignal ==
    \/ Next
    \/ Signal
    \/ SignalSaveFinish
    \/ SignalExit

SpecSignal == Init /\ [][NextSignal]_vars

----------------------------------------------------------------------------
(* Failures of the environment inside a cycle, and the scheduling of the   *)
(* process.                                                                *)

\* what a pass reads when the file p cannot be opened or read:
\* _get_earliest_timestamp returns 'z' for it and collect_records prints the
\* error and goes on with the next file, as for a file without lines
Unreadable(d, p) == [q \in Paths |-> IF q = p THEN <<>> ELSE d[q]]

\* collect_and_report up to the call of report_usage, one file being unreadable
CollectUnreadable ==
    /\ pc = "collect"
    /\ \E p \in Paths :
           /\ dir[p] # <<>>
           /\ files' = find_jsonl_files(Unreadable(dir, p))
           /\ records' = collect_records(Unreadable(dir, p), files', reported_records, now)
    /\ i' = 0
    /\ all_ok' = TRUE
    /\ sent' = <<>>
    /\ cycle_start_reported' = reported_records
    /\ prev_pass' = last_pass
    /\ passes' = passes + 1
    /\ pc' = "report"
    /\ UNCHANGED <<exit_code,
                   dir, disk, now, once, reported_records, last_reported_timestamp,
                   save_ret, unsent, last_pass>>

\* State.save() fails while it writes (no space left on the device): the
\* except prints the error, save() returns and the file stays as it is
SaveFail ==
    /\ pc = "saving"
    /\ pc' = save_ret
    /\ UNCHANGED <<files, exit_code,
                   dir, disk, now, once, reported_records, last_reported_timestamp,
                   records, i, all_ok, save_ret, passes, sent, cycle_start_reported,
                   unsent, last_pass, prev_pass>>

NextLive ==
    \/ NextSignal
    \/ CollectUnreadable
    \/ SaveFail

\* a running process takes its next step: find_jsonl_files, collect_records and
\* save() have no unbounded loop, urlopen has a timeout of 30 seconds and
\* time.sleep returns after the interval.  When a process is started, killed
\* or signalled, and how the clock moves between two processes, is not
\* scheduled by the program.
Fairness ==
    /\ WF_vars(Collect \/ CollectUnreadable)
    /\ WF_vars(SendBatchOk \/ SendBatchFail)
    /\ WF_vars(ReportReturn)
    /\ WF_vars(SaveFinish \/ SaveFail)
    /\ WF_vars(OnceSave)
    /\ WF_vars(Exit)
    /\ WF_vars(Sleep)
    /\ WF_vars(SignalSaveFinish)
    /\ WF_vars(SignalExit)

\* a directory whose pass has one batch, and two whose pass has two batches
LiveDirs ==
    {[p \in Paths |-> IF p = "a.jsonl" THEN <<E_NOREQ>> ELSE <<>>],
     [p \in Paths |-> IF p = "a.jsonl" THEN <<E_NOREQ, E_NODATE, E_HASHED>> ELSE <<>>],
     [p \in Paths |-> IF p = "a.jsonl" THEN <<E_NOREQ>>
                       ELSE IF p = "b.jsonl" THEN <<E_HASHED, E_NODATE>> ELSE <<>>]}

InitLive ==
    /\ dir \in LiveDirs
    /\ disk = MissingFile
    /\ NotStarted

SpecLive == InitLive /\ [][NextLive]_vars /\ Fairness

----------------------------------------------------------------------------
(* One process over log files that grow.                                   *)

\* between two passes the tool that writes the logs appends a line to a log
\* file or starts a new file (a file without lines reads as one that is not
\* there: it gives no record and has the key 'z')
AppendLine ==
    /\ pc \in {"off", "cycle_end"}
    /\ TotalLines(dir) < MaxLines
    /\ \E p \in Paths, e \in LogLines : dir' = [dir EXCEPT ![p] = Append(@, e)]
    /\ UNCHANGED <<files, exit_code,
                   disk, now, pc, once, reported_records, last_reported_timestamp,
                   records, i, all_ok, save_ret, passes, sent, cycle_start_reported,
                   unsent, last_pass, prev_pass>>

\* one process from its start on: it is neither killed nor started again
NextGrow ==
    \/ Start
    \/ Collect
    \/ SendBatchOk
    \/ SendBatchFail
    \/ ReportReturn
    \/ SaveFinish
    \/ Sleep
    \/ AppendLine

SpecGrow == Init /\ [][NextGrow]_vars

----------------------------------------------------------------------------
(* One collection pass over every kind of line: the inputs of               *)
(* find_jsonl_files and collect_records are drawn by InitScan, Start loads *)
(* the state file and Collect applies the two functions.                   *)

\* the state files an earlier run can have left: none, or one that holds the
\* RecordID of E_HASHED in one of the files
ScanStateFiles ==
    {MissingFile} \cup {SavedFile(2, {record_id(p, E_HASHED, 0)}) : p \in Paths}

InitScan ==
    /\ dir \in ScanDirs
    /\ disk \in ScanStateFiles
    /\ NotStarted

NextScan ==
    \/ Start
    \/ Collect

SpecScan == InitScan /\ [][NextScan]_vars

----------------------------------------------------------------------------
(* The agent started on whatever stands at the state file's path.          *)

LoadStateFiles ==
    {MissingFile, PartialFile, NotObjectFile, BadRecordsFile, StrRecordsFile,
     SavedFile(2, {record_id("a.jsonl", E_HASHED, 0)})}

InitLoad ==
    /\ dir \in SmallDirs
    /\ disk \in LoadStateFiles
    /\ NotStarted

SpecLoad == InitLoad /\ [][Next]_vars

----------------------------------------------------------------------------
(* What the formulas below talk about.                                     *)

RecordIds(recs) == {recs[k]._record_id : k \in 1..Len(recs)}

\* the log line a record was built from
EntryOf(r) == dir[r.path][r.line]

\* the records of the running cycle are those of its collection at time now
InCycle == pc \in {"report", "saving", "cycle_end", "exit"}

\* collect_records has just returned
JustCollected == pc = "report" /\ sent = <<>>

\* State() has just been constructed: no pass of the process has run
JustLoaded == pc = "collect" /\ files = <<>>

Accepted(e) == e.json /\ _validate_entry(e)

HasDedupHash(e) == e.id # None /\ e.requestId # None

RecordsOfHash(h) == {k \in 1..Len(records) : unique_hash(EntryOf(records[k])) = h}

RECURSIVE ConcatBatches(_, _)
ConcatBatches(log, k) ==
    IF k = 0 THEN <<>> ELSE ConcatBatches(log, k - 1) \o log[k].batch

CeilDiv(n, m) == (n + m - 1) \div m

\* the lines of the directory: path and line number
LinesOf(d) ==
    IF d = NoDirectory THEN {}
    ELSE UNION {{p} \X (1..Len(d[p])) : p \in Paths}

\* the pass reads line l of file p: no line before it in the file is a JSON
\* value that is no object
Reached(p, l) == \A k \in 1..(l - 1) : ~(dir[p][k].json /\ ~dir[p][k].object)

\* no other line of the directory holds an entry of the same DedupHash
OnlyCopy(p, l) ==
    \A pl \in LinesOf(dir) \ {<<p, l>>} :
        unique_hash(dir[pl[1]][pl[2]]) # unique_hash(dir[p][l])

\* line l of file p gave a record in the pass
HasRecord(p, l) == \E k \in 1..Len(records) : records[k].path = p /\ records[k].line = l

----------------------------------------------------------------------------
(* C1: after a full pass whose batches were all acknowledged, the next     *)
(* pass over the unchanged log files, in the same process or in a new one  *)
(* that reloads the state file, collects zero records.                     *)
C1_SecondPassCollectsNothing ==
    (JustCollected /\ prev_pass = "ok" /\ passes >= 2) => records = <<>>

(* C2: after a cycle in which a batch failed, no record of the failed      *)
(* batch or of the batches after it is reported, and the next pass over    *)
(* the unchanged files returns each of them again.                         *)
C2_FailedBatchStaysUnreported ==
    /\ (pc = "cycle_end" /\ ~all_ok) =>
           \A k \in 1..Len(unsent) : unsent[k]._record_id \notin reported_records
    /\ (JustCollected /\ prev_pass = "failed") =>
           \A k \in 1..Len(unsent) :
               \E j \in 1..Len(records) :
                   records[j].path = unsent[k].path /\ records[j].line = unsent[k].line

(* C3: the batches sent in a cycle are batches 1..K in order, and only the *)
(* last of them can have failed: nothing is sent after a failure.          *)
C3_SentBatchesArePrefix ==
    \A k \in 1..Len(sent) : sent[k].num = k /\ (k < Len(sent) => sent[k].ok)

\* batch 2 of at least 3 failed and batch 3 was not sent
C3_Witness ==
    /\ pc = "cycle_end"
    /\ Len(records) > 2 * BATCH_SIZE
    /\ Len(sent) = 2
    /\ sent[1].ok
    /\ ~sent[2].ok

(* C4: the batches are consecutive slices of the record list, of size      *)
(* BATCH_SIZE except the last, ceil(n / BATCH_SIZE) of them when all are   *)
(* sent, concatenating to the list; and when batch 2 fails, exactly the    *)
(* RecordIDs of the first BATCH_SIZE records have been marked in the cycle *)
(* and are in the state file.                                              *)
C4_BatchesSplitRecords ==
    /\ \A k \in 1..Len(sent) :
           /\ Len(sent[k].batch) <= BATCH_SIZE
           /\ (k * BATCH_SIZE < Len(records)) => Len(sent[k].batch) = BATCH_SIZE
           /\ sent[k].batch = SubSeq(records, (k - 1) * BATCH_SIZE + 1,
                                     (k - 1) * BATCH_SIZE + Len(sent[k].batch))
    /\ (pc = "cycle_end" /\ all_ok) =>
           /\ Len(sent) = CeilDiv(Len(records), BATCH_SIZE)
           /\ ConcatBatches(sent, Len(sent)) = records

C4_BatchingAndPartialProgress ==
    /\ C4_BatchesSplitRecords
    /\ (pc = "cycle_end" /\ Len(sent) = 2 /\ ~sent[2].ok) =>
           /\ reported_records =
                  cycle_start_reported \cup RecordIds(SubSeq(records, 1, BATCH_SIZE))
           /\ disk.st = "ok"
           /\ RecordIds(SubSeq(records, 1, BATCH_SIZE)) \subseteq disk.reportedRecords

(* C5: when a batch has been acknowledged and the next batch is about to   *)
(* be sent (or report_usage returns), every RecordID of that batch is in   *)
(* the reported set and in the rewritten state file.                       *)
C5_AckedBatchIsPersisted ==
    (pc \in {"report", "cycle_end"} /\ sent # <<>> /\ sent[Len(sent)].ok) =>
        /\ RecordIds(sent[Len(sent)].batch) \subseteq reported_records
        /\ disk.st = "ok"
        /\ RecordIds(sent[Len(sent)].batch) \subseteq disk.reportedRecords

(* C6: no two records of one pass were built from entries that share a     *)
(* defined DedupHash, and with nothing reported before the pass an entry   *)
(* with a DedupHash that occurs in the files yields exactly one record.    *)
C6_OneRecordPerDedupHash ==
    InCycle =>
        \A p \in Paths : \A l \in 1..Len(dir[p]) :
            (Accepted(dir[p][l]) /\ HasDedupHash(dir[p][l])) =>
                /\ Cardinality(RecordsOfHash(unique_hash(dir[p][l]))) <= 1
                /\ (cycle_start_reported = {}) =>
                       Cardinality(RecordsOfHash(unique_hash(dir[p][l]))) = 1

\* the same hashed entry stands in both files and gave one record
C6_Witness ==
    /\ JustCollected
    /\ dir["a.jsonl"] = <<E_HASHED>>
    /\ dir["b.jsonl"] = <<E_HASHED>>
    /\ Cardinality(RecordsOfHash(unique_hash(E_HASHED))) = 1

(* C7: every accepted line without message.id or without requestId whose   *)
(* RecordID was not reported when the pass ran has its own record in the   *)
(* pass, however many identical lines there are.                           *)
C7_UnhashedNeverDropped ==
    InCycle =>
        \A p \in Paths : \A l \in 1..Len(dir[p]) :
            (/\ Accepted(dir[p][l])
             /\ (dir[p][l].id = None \/ dir[p][l].requestId = None)
             /\ record_id(p, dir[p][l], now) \notin cycle_start_reported) =>
                \E k \in 1..Len(records) : records[k].path = p /\ records[k].line = l

\* three identical lines without requestId gave three records with one RecordID
C7_Witness ==
    /\ JustCollected
    /\ Len(dir["a.jsonl"]) >= 3
    /\ \A l \in 1..3 : dir["a.jsonl"][l] = E_NOREQ
    /\ Cardinality({k \in 1..Len(records) :
                       records[k]._record_id = record_id("a.jsonl", E_NOREQ, now)}) >= 3

(* C8: a failed send leaves the reported set, lastReportedTimestamp and    *)
(* the state file as they were; in a running process a RecordID enters the *)
(* reported set only with a batch whose send succeeded.                    *)
C8_FailedSendChangesNothing ==
    [][/\ (Len(sent') = Len(sent) + 1 /\ ~sent'[Len(sent')].ok) =>
              UNCHANGED <<reported_records, last_reported_timestamp, disk>>
       /\ (pc # "off" /\ reported_records' # reported_records /\ pc' # "off") =>
              /\ Len(sent') = Len(sent) + 1
              /\ sent'[Len(sent')].ok
              /\ reported_records' \ reported_records
                     \subseteq RecordIds(sent'[Len(sent')].batch)]_vars

\* a batch failed after an earlier batch of the cycle had been marked
C8_Witness ==
    /\ pc = "cycle_end"
    /\ Len(sent) = 2
    /\ ~sent[2].ok
    /\ reported_records # {}

(* C9: the reportedRecords array of the state file never holds more than   *)
(* KEEP_LAST entries.                                                      *)
C9_StateFileIsCapped == Cardinality(disk.reportedRecords) <= KEEP_LAST

\* more than KEEP_LAST RecordIDs are marked and have been saved
C9_Witness ==
    /\ pc = "report"
    /\ disk.st = "ok"
    /\ Cardinality(reported_records) > KEEP_LAST
    /\ Cardinality(disk.reportedRecords) = KEEP_LAST

(* C10: the state file is never left half-written: after the process is    *)
(* gone the file is missing or complete.                                   *)
C10_StateFileNeverHalfWritten == pc = "off" => disk.st # "partial"

(* C11: a rejected line skips only itself: every accepted line of the      *)
(* directory whose RecordID is not reported, and whose DedupHash no other  *)
(* line shares, has its record in the pass, whatever malformed, non-object *)
(* or schema-mismatch lines stand before it.                               *)
C11_RejectedLineSkipsOnlyItself ==
    JustCollected =>
        \A pl \in LinesOf(dir) :
            (/\ Accepted(dir[pl[1]][pl[2]])
             /\ OnlyCopy(pl[1], pl[2])
             /\ record_id(pl[1], dir[pl[1]][pl[2]], now) \notin cycle_start_reported) =>
                HasRecord(pl[1], pl[2])

(* C12: a State constructed on a missing or corrupt state file (no JSON    *)
(* document, a document that is no object, an object whose reportedRecords *)
(* is no list of strings) is empty: timestamp 0 and no RecordID.           *)
C12_CorruptStateFileLoadsEmpty ==
    (JustLoaded /\ disk.st # "ok") =>
        /\ reported_records = {}
        /\ last_reported_timestamp = 0

C13_WitnessNothingNew ==
    /\ pc = "off"
    /\ exit_code = 0
    /\ last_pass = "ok"
    /\ passes = 2
    /\ disk.reportedRecords # {}

\* a cycle of a process in continuous mode is under way or has ended, it is
\* the n-th collect_and_report call and the bounds leave room for one more
ContinuousCycle(n) ==
    /\ ~once
    /\ pc \in {"report", "saving", "cycle_end"}
    /\ passes = n
    /\ now < MaxTime

C15_SignalSavesBeforeExit ==
    pc = "sig_exit" =>
        /\ disk.st = "ok"
        /\ disk.lastReportedTimestamp = last_reported_timestamp
        /\ disk.reportedRecords \subseteq reported_records
        /\ Cardinality(reported_records) <= KEEP_LAST =>
               disk.reportedRecords = reported_records

\* the signal fell between the two marks of the first batch, whose records have
\* different RecordIDs: the one marked RecordID is in the file
C15_Witness ==
    /\ pc = "sig_exit"
    /\ sent = <<>>
    /\ Len(records) >= 2
    /\ records[1]._record_id # records[2]._record_id
    /\ reported_records = {records[1]._record_id}
    /\ disk.reportedRecords = reported_records

\* the instant a timestamp names, in thousandths of the model's clock unit
Instant(ts) ==
    CASE ts = T_DAY1 -> 1000 [] ts = T_DAY1_MS -> 1500 [] ts = T_DAY2 -> 2000

\* some line of the file parses and holds a timestamp
HasTimestamp(p) == _get_earliest_timestamp(dir, p) # "z"

(* C16: find_jsonl_files lists every file once, the files with a timestamp *)
(* in ascending order of the instant of their first timestamp and the      *)
(* files without one after them; a root directory that does not exist      *)
(* gives the empty list.                                                   *)
C16_FilesInTimestampOrder ==
    JustCollected =>
        IF dir = NoDirectory THEN files = <<>>
        ELSE /\ Len(files) = Cardinality(Paths)
             /\ Range(files) = Paths
             /\ \A m, n \in 1..Len(files) :
                    (m < n /\ HasTimestamp(files[n])) =>
                        /\ HasTimestamp(files[m])
                        /\ Instant(_get_earliest_timestamp(dir, files[m]))
                               <= Instant(_get_earliest_timestamp(dir, files[n]))

(* C17: when more than KEEP_LAST RecordIDs are marked, the save after an   *)
(* acknowledged batch writes KEEP_LAST entries that are the most recently  *)
(* marked ones: the RecordIDs of that batch are among them.                *)
C17_SaveKeepsLatestBatch ==
    (/\ pc = "report"
     /\ sent # <<>>
     /\ sent[Len(sent)].ok
     /\ Cardinality(reported_records) > KEEP_LAST) =>
        /\ Cardinality(disk.reportedRecords) = KEEP_LAST
        /\ RecordIds(sent[Len(sent)].batch) \subseteq disk.reportedRecords

\* the place of file p in the list the pass went through
Pos(p) == CHOOSE n \in 1..Len(files) : files[n] = p

\* line l of file p is processed before line m of file q
Before(p, l, q, m) == Pos(p) < Pos(q) \/ (p = q /\ l < m)

\* the accepted entries of the pass: the lines it read and validated
AcceptedLines ==
    {pl \in LinesOf(dir) : Reached(pl[1], pl[2]) /\ Accepted(dir[pl[1]][pl[2]])}

(* C18: a record whose entry has a DedupHash is built from the first       *)
(* accepted entry of that hash in processing order, so when that first     *)
(* entry is already reported no copy of it yields a record in the pass.    *)
C18_FirstCopyWins ==
    JustCollected =>
        \A k \in 1..Len(records) :
            HasDedupHash(EntryOf(records[k])) =>
                \A pl \in AcceptedLines \ {<<records[k].path, records[k].line>>} :
                    unique_hash(dir[pl[1]][pl[2]]) = unique_hash(EntryOf(records[k])) =>
                        Before(records[k].path, records[k].line, pl[1], pl[2])

\* b.jsonl is processed before a.jsonl, its copy of the hashed entry is already
\* reported, and the copy in a.jsonl gave no record
C18_Witness ==
    /\ JustCollected
    /\ dir # NoDirectory
    /\ dir["a.jsonl"] = <<E_HASHED>>
    /\ dir["b.jsonl"] = <<E_NOREQ, E_HASHED>>
    /\ files[1] = "b.jsonl"
    /\ record_id("b.jsonl", E_HASHED, now) \in cycle_start_reported
    /\ RecordsOfHash(unique_hash(E_HASHED)) = {}
    /\ records # <<>>

\* the RecordIDs under which an entry of DedupHash h can have been reported
RecordIdsOfHash(h) == {<<p, ":">> \o h : p \in Paths}

(* C19: in one process over log files that only grow, no acknowledged      *)
(* batch holds a record of a DedupHash of which a copy was already         *)
(* reported when the cycle began.                                          *)
C19_HashReportedOnce ==
    \A k \in 1..Len(sent) :
        sent[k].ok =>
            \A j \in 1..Len(sent[k].batch) :
                HasDedupHash(EntryOf(sent[k].batch[j])) =>
                    RecordIdsOfHash(unique_hash(EntryOf(sent[k].batch[j])))
                        \cap cycle_start_reported = {}

(* C20: the RecordID of a line is the same in every pass: a line that a    *)
(* failed cycle left unsent and that the next pass collects again has the  *)
(* RecordID it had in the failed cycle.                                    *)
C20_RecordIdIsStableAcrossPasses ==
    (JustCollected /\ prev_pass = "failed") =>
        \A k \in 1..Len(unsent) : \A j \in 1..Len(records) :
            (records[j].path = unsent[k].path /\ records[j].line = unsent[k].line) =>
                records[j]._record_id = unsent[k]._record_id

====
